---- MODULE Spec2Model ----
(***************************************************************************)
(* Task lifecycle of the task-management backend: the Task schema with its *)
(* pre-save hook (models/Task.js) and the handlers of taskController.js,   *)
(* the writes as well as the reads, acting on one MongoDB task collection. *)
(*                                                                         *)
(* Strings that the code inspects character by character (task codes) are  *)
(* sequences of one-character strings.  The characters a code can hold     *)
(* here are "T", the decimal digits, "a" (any character that parseInt does *)
(* not accept) and the letters of "NaN".                                   *)
(***************************************************************************)
EXTENDS Integers, Sequences, FiniteSets, TLC

\* ------------------------------------------------------------------ bounds
MaxTasks == 2      \* task documents ever inserted in one run
MaxClients == 2    \* client documents ever inserted in one run
MaxTime  == 2      \* the clock Date.now() runs over 1..MaxTime
NumProcs == 2      \* create requests that can be in flight together

Procs   == 1..NumProcs
TaskIds == 1..MaxTasks
ClientIds == 1..MaxClients

\* ------------------------------------------------------------ the users
\* The user collection: two documents, one of them an administrator.
Users == {"u1", "u2"}
Role(u) == IF u = "u2" THEN "admin" ELSE "user"
\* A well-formed ObjectId string that is no user's _id.
Ghost == "u9"
\* A string that does not cast to an ObjectId.
Malformed == "bad"

Absent == "absent"          \* a field the request body does not carry
Null == "null"              \* a field the request body carries as null
NoDate == 0                 \* a task without dueDate
FarDate == MaxTime + 1      \* a due date the clock never passes
NaN == -1                   \* the number NaN (no code suffix is negative)

\* ------------------------------------------------------- string helpers
DigitChars == <<"0", "1", "2", "3", "4", "5", "6", "7", "8", "9">>
IsDigit(c) == \E i \in 1..10 : DigitChars[i] = c
DigitVal(c) == (CHOOSE i \in 1..10 : DigitChars[i] = c) - 1

\* String.prototype.substring(1)
Substring1(s) == IF Len(s) <= 1 THEN <<>> ELSE SubSeq(s, 2, Len(s))

\* parseInt(s): the value of the longest prefix of decimal digits, NaN when
\* that prefix is empty.
RECURSIVE ParseDigits(_, _, _)
ParseDigits(s, i, acc) ==
  IF i > Len(s) \/ ~IsDigit(s[i])
    THEN acc
    ELSE ParseDigits(s, i + 1, acc * 10 + DigitVal(s[i]))
ParseInt(s) ==
  IF Len(s) = 0 \/ ~IsDigit(s[1]) THEN NaN ELSE ParseDigits(s, 1, 0)

\* Number.prototype.toString() of a non-negative integer or NaN
RECURSIVE ToStr(_)
ToStr(n) ==
  IF n = NaN THEN <<"N", "a", "N">>
  ELSE IF n < 10 THEN <<DigitChars[n + 1]>>
  ELSE ToStr(n \div 10) \o <<DigitChars[(n % 10) + 1]>>

\* String.prototype.padStart(width, "0")
RECURSIVE PadStart(_, _)
PadStart(s, width) ==
  IF Len(s) >= width THEN s ELSE PadStart(<<"0">> \o s, width)

\* lastNumber + 1 in JavaScript arithmetic
PlusOne(n) == IF n = NaN THEN NaN ELSE n + 1

\* ------------------------------------------------------------ the state
VARIABLES
  tasks,     \* the committed task collection: _id -> document
  nextId,    \* number of task documents inserted so far, plus one
  now,       \* Date.now()
  reqs,      \* the create requests in flight, one slot per process
  resp,      \* the response of the request that finished last
  lastNum,   \* numeric suffix of the code of the task created last
  txns,      \* the session calls of each process's latest create invocation
  clients,   \* the committed client collection: _id -> document
  nextClient,\* number of client documents inserted so far, plus one
  auth       \* the auth slice of the frontend store, with its requests in flight

vars == <<tasks, nextId, now, reqs, resp, lastNum, clients, nextClient, auth, txns>>

\* what the task handlers never touch
rest == <<clients, nextClient, auth>>

\* what no handler but createTask touches
side == <<clients, nextClient, auth, txns>>

\* the enum of taskSchema.status
StatusEnum == {"todo", "in-progress", "completed"}

\* the enum of taskSchema.priority
PriorityEnum == {"low", "medium", "high"}

\* a list that lets one more value through
validStatuses_Archived == {"todo", "in-progress", "completed", "archived"}

\* validStatuses of updateTaskStatus
validStatuses == {"todo", "in-progress", "completed"}

IdleReq == [pc |-> "idle"]
NoResp  == [op |-> "none", code |-> 0]

NoToken == "null"           \* token: null
NoUser == "null"            \* user: null

\* initialState of the auth slice, tok being localStorage.getItem('token');
\* no thunk has been dispatched
InitialAuth(tok) ==
  [user |-> NoUser, token |-> tok, isAuthenticated |-> FALSE, status |-> "idle",
   error |-> "null", inFlight |-> {}]

\* the server with its collections empty
InitServer ==
  /\ tasks = << >>
  /\ nextId = 1
  /\ now = 1
  /\ reqs = [p \in Procs |-> IdleReq]
  /\ resp = NoResp
  /\ lastNum = NaN
  /\ clients = << >>
  /\ nextClient = 1
  /\ txns = [p \in Procs |-> << >>]

Init ==
  /\ InitServer
  /\ auth = InitialAuth(NoToken)

\* ------------------------------------------------------ request inputs
\* req.body.assignedTo: absent, one identifier, or an array of identifiers
NoAssignee  == [kind |-> "absent", val |-> << >>]
Scalar(a)   == [kind |-> "scalar", val |-> a]
Array(ids)  == [kind |-> "array", val |-> ids]

\* a normalization that drops a single identifier
Normalize_DropScalar(a) == IF a.kind = "scalar" THEN << >> ELSE a.val

\* Array.isArray(assignedTo) ? assignedTo : [assignedTo]
Normalize(a) == IF a.kind = "scalar" THEN <<a.val>> ELSE a.val

\* a check that lets an empty array through
NoAssignees_AbsentOnly(a) == a.kind = "absent"

\* !assignedTo || (Array.isArray(assignedTo) && assignedTo.length === 0)
NoAssignees(a) ==
  \/ a.kind = "absent"
  \/ (a.kind = "array" /\ Len(a.val) = 0)

Range(s) == {s[i] : i \in DOMAIN s}

\* The order in which User.find returns the user documents.
UserOrder == <<"u1", "u2">>

\* users.map(user => user._id) for the users whose _id is among ids
FoundUsers(ids) == SelectSeq(UserOrder, LAMBDA u : u \in Range(ids))

\* assigneeIdStrings.filter(id => !foundIds.includes(id))
MissingIds(ids) == SelectSeq(ids, LAMBDA a : a \notin Range(FoundUsers(ids)))

\* The query { _id: { $in: ids } } casts every identifier to an ObjectId.
CastFails(ids) == \E i \in DOMAIN ids : ids[i] = Malformed

\* -------------------------------------------------------- the Task model
DefaultCode == <<"T", "0", "0", "0", "1">>

\* documents with the greatest createdAt: what
\* findOne({}, {}, { sort: { createdAt: -1 } }) may return
Latest ==
  {i \in DOMAIN tasks : \A j \in DOMAIN tasks : tasks[j].createdAt <= tasks[i].createdAt}

\* generateTaskCode padding to three characters instead of four
GenerateTaskCode_Pad3(last) ==
  LET lastNumber == IF last # 0 /\ Len(tasks[last].taskCode) > 0
                      THEN ParseInt(Substring1(tasks[last].taskCode))
                      ELSE 0
  IN  <<"T">> \o PadStart(ToStr(PlusOne(lastNumber)), 3)

\* generateTaskCode, given the document findOne returned (0: null)
GenerateTaskCode(last) ==
  LET lastNumber == IF last # 0 /\ Len(tasks[last].taskCode) > 0
                      THEN ParseInt(Substring1(tasks[last].taskCode))
                      ELSE 0
  IN  <<"T">> \o PadStart(ToStr(PlusOne(lastNumber)), 4)

\* the second half of the pre-save hook: a stale due date
DueStatus(doc, t) ==
  IF doc.dueDate # NoDate /\ doc.dueDate < t THEN "overdue" ELSE doc.status

\* an index that does not see the inserts of open transactions
PendingCodes_None(self) == {}

\* the codes of the documents inserted by the transactions that are still
\* open, other than that of process self (0: a write outside any transaction)
PendingCodes(self) ==
  {reqs[q].doc.taskCode : q \in {r \in Procs : r # self /\ reqs[r].pc = "com"}}

\* the codes of the committed documents other than document id (0: none)
CommittedCodes(id) ==
  {tasks[i].taskCode : i \in DOMAIN tasks \ {id}}

\* a taskCode field without the unique index
DuplicateKey_NoIndex(code, self, id) == FALSE

\* the unique index on taskCode, as a write of code to document id by process
\* self meets it: a write that collides with a committed document or with the
\* insert of an open transaction fails
DuplicateKey(code, self, id) ==
  code \in CommittedCodes(id) \cup PendingCodes(self)

\* A client identifier is a number: 1..MaxClients are the _ids that client
\* documents get, NoClient is a body without the field.
NoClient == 0

\* schema validation of a document that is about to be saved
SchemaValid(doc) ==
  /\ doc.title
  /\ doc.status \in StatusEnum
  /\ doc.priority \in PriorityEnum
  /\ doc.client # NoClient

InFlight == {p \in Procs : reqs[p].pc \in {"gen", "ins", "com"}}

\* a finished create request: the status it was answered with, the code it
\* generated, the document findOne gave it, whether another request had read
\* the same document and not yet inserted when this one inserted, and the
\* number of inserts it attempted
Done(http, code, read, raced, tries) ==
  [pc |-> "done", http |-> http, code |-> code, read |-> read, raced |-> raced,
   tries |-> tries]

\* -------------------------------------------------------------- createTask
\* The calls an invocation makes on its session, in the order it makes them.

\* mongoose.startSession(); session.startTransaction()
Started == <<"start">>

\* commitTransaction(); endSession() at the end of the try block
Committed == <<"commit", "end">>

\* a catch block that ends the session without aborting
Caught_NoAbort == <<"end">>

\* abortTransaction(); endSession() of the catch block
Caught == <<"abort", "end">>

\* a creator taken from the request body when the body names one
CreatedBy_Body(u, b) == IF b.createdBy = Absent THEN u ELSE b.createdBy

\* taskData.createdBy = req.user.id, after the body was spread into taskData
CreatedBy(u, b) == u

\* createTask up to the point where save reaches the pre-save hook: the
\* assignee checks, the construction of the document and its validation.
CreateBegin(p, u, b) ==
  /\ reqs[p].pc \in {"idle", "done"}
  /\ nextId + Cardinality(InFlight) <= MaxTasks
  /\ UNCHANGED <<tasks, nextId, now, lastNum>>
  /\ UNCHANGED rest
  /\ LET ids == Normalize(b.assignedTo)
         doc == [taskCode |-> DefaultCode,
                 title |-> b.title,
                 status |-> IF b.status = Absent THEN "todo" ELSE b.status,
                 dueDate |-> b.dueDate,
                 priority |-> IF b.priority = Absent THEN "medium" ELSE b.priority,
                 client |-> b.client,
                 createdBy |-> CreatedBy(u, b),
                 assignedTo |-> FoundUsers(ids),
                 createdAt |-> 0]
         fail(code, msg, missing) ==
           /\ reqs' = [reqs EXCEPT ![p] = Done(code, << >>, 0, FALSE, 0)]
           /\ txns' = [txns EXCEPT ![p] = Started \o Caught]
           /\ resp' = [op |-> "createTask", code |-> code, msg |-> msg,
                       missing |-> missing]
     IN  IF NoAssignees(b.assignedTo)
           THEN fail(400, "assignee required", << >>)
         ELSE IF CastFails(ids)
           THEN fail(500, "cast", << >>)
         ELSE IF Len(FoundUsers(ids)) # Len(ids)
           THEN fail(400, "users do not exist", MissingIds(ids))
         ELSE IF ~SchemaValid(doc)
           THEN fail(400, "validation", << >>)
         ELSE /\ reqs' = [reqs EXCEPT ![p] = [pc |-> "gen", doc |-> doc, user |-> u,
                                           asked |-> b.createdBy]]
              /\ txns' = [txns EXCEPT ![p] = Started]
              /\ UNCHANGED resp

\* the pre-save hook of a new document: timestamps, generateTaskCode, due date
CreateGenerate(p) ==
  /\ reqs[p].pc = "gen"
  /\ \E last \in (IF DOMAIN tasks = {} THEN {0} ELSE Latest) :
       LET d0 == reqs[p].doc
           d1 == [d0 EXCEPT !.taskCode = GenerateTaskCode(last),
                            !.createdAt = now]
           d2 == [d1 EXCEPT !.status = DueStatus(d1, now)]
       IN  reqs' = [reqs EXCEPT ![p] = [pc |-> "ins", doc |-> d2, read |-> last,
                                         user |-> reqs[p].user,
                                         asked |-> reqs[p].asked]]
  /\ UNCHANGED <<tasks, nextId, now, resp, lastNum>>
  /\ UNCHANGED rest
  /\ UNCHANGED txns

\* the insert of task.save({ session }); a duplicate key ends the request in
\* the catch block
CreateInsert(p) ==
  /\ reqs[p].pc = "ins"
  /\ LET d == reqs[p].doc
         raced == \E q \in Procs \ {p} :
                    /\ reqs[q].pc = "ins"
                    /\ reqs[q].read = reqs[p].read
     IN  IF DuplicateKey(d.taskCode, p, 0)
           THEN /\ reqs' = [reqs EXCEPT ![p] =
                              Done(500, d.taskCode, reqs[p].read, raced, 1)]
                /\ resp' = [op |-> "createTask", code |-> 500, msg |-> "duplicate key",
                            missing |-> << >>]
                /\ txns' = [txns EXCEPT ![p] = @ \o Caught]
           ELSE /\ reqs' = [reqs EXCEPT ![p] =
                              [pc |-> "com", doc |-> d, read |-> reqs[p].read,
                               raced |-> raced, user |-> reqs[p].user,
                               asked |-> reqs[p].asked]]
                /\ UNCHANGED <<resp, txns>>
  /\ UNCHANGED <<tasks, nextId, now, lastNum>>
  /\ UNCHANGED rest

\* commitTransaction and the 201 response
CreateCommit(p) ==
  /\ reqs[p].pc = "com"
  /\ LET d == reqs[p].doc
     IN  /\ tasks' = (nextId :> [taskCode |-> d.taskCode,
                                 status |-> d.status,
                                 priority |-> d.priority,
                                 client |-> d.client,
                                 dueDate |-> d.dueDate,
                                 createdBy |-> d.createdBy,
                                 assignedTo |-> d.assignedTo,
                                 createdAt |-> d.createdAt]) @@ tasks
         /\ lastNum' = ParseInt(Substring1(d.taskCode))
         /\ reqs' = [reqs EXCEPT ![p] =
                       Done(201, d.taskCode, reqs[p].read, reqs[p].raced, 1)]
  /\ nextId' = nextId + 1
  /\ resp' = [op |-> "createTask", code |-> 201, msg |-> "success", missing |-> << >>,
              user |-> reqs[p].user, asked |-> reqs[p].asked]
  /\ txns' = [txns EXCEPT ![p] = @ \o Committed]
  /\ UNCHANGED now
  /\ UNCHANGED rest

\* the value handed to express's next() when a handler wrapped in catchAsync
\* throws; the status it is answered with is decided outside the controller
Thrown == 1

Restrict(f, S) == [i \in S |-> f[i]]

\* ------------------------------------------------------- updateTaskStatus
\* PATCH /:id/status, the handler exported last (line 166)

\* task.assignedTo.some(assignee => assignee._id.toString() === req.user.id)
IsAssigned(task, u) == \E i \in DOMAIN task.assignedTo : task.assignedTo[i] = u

\* a creator check that also lets administrators through
IsCreator_OrAdmin(task, u) == task.createdBy = u \/ Role(u) = "admin"

\* task.createdBy._id.toString() === req.user.id
IsCreator(task, u) == task.createdBy = u

UpdateTaskStatus(u, id, status) ==
  /\ UNCHANGED <<nextId, now, reqs, lastNum>>
  /\ UNCHANGED side
  /\ IF id \notin DOMAIN tasks
       THEN /\ resp' = [op |-> "updateTaskStatus", code |-> 404]
            /\ UNCHANGED tasks
     ELSE IF ~IsAssigned(tasks[id], u) /\ ~IsCreator(tasks[id], u)
       THEN /\ resp' = [op |-> "updateTaskStatus", code |-> 403]
            /\ UNCHANGED tasks
     ELSE IF status \notin validStatuses
       THEN /\ resp' = [op |-> "updateTaskStatus", code |-> 400]
            /\ UNCHANGED tasks
     ELSE LET t1 == [tasks[id] EXCEPT !.status = status]
              t2 == [t1 EXCEPT !.status = DueStatus(t1, now)]
          IN  /\ tasks' = [tasks EXCEPT ![id] = t2]
              /\ resp' = [op |-> "updateTaskStatus", code |-> 200]

\* ---------------------------------------------------------------- updateTask
\* PATCH /:id.  The body is a record of the fields it sets; Absent, NoDate and
\* the kind "absent" mark the fields it does not carry.
NoCode == << >>

\* Whether the enum validator of an update lets null through depends on the
\* mongoose release: both outcomes.
NullChoices(b) == IF b.priority = Null THEN BOOLEAN ELSE {FALSE}

\* what the casts and the update validators of findByIdAndUpdate reject
UpdateInvalid(b, strict) ==
  \/ CastFails(Normalize(b.assignedTo))
  \/ (b.status # Absent /\ b.status \notin StatusEnum)
  \/ (b.priority \notin {Absent, Null} /\ b.priority \notin PriorityEnum)
  \/ (b.priority = Null /\ strict)

\* the document after the $set of the fields the body carries
Patched(task, b) ==
  [task EXCEPT
     !.taskCode = IF b.taskCode = NoCode THEN @ ELSE b.taskCode,
     !.status = IF b.status = Absent THEN @ ELSE b.status,
     !.priority = IF b.priority = Absent THEN @ ELSE b.priority,
     !.dueDate = IF b.dueDate = NoDate THEN @ ELSE b.dueDate,
     !.assignedTo = IF b.assignedTo.kind = "absent" THEN @
                    ELSE Normalize(b.assignedTo)]

UpdateTask(u, id, b) ==
  /\ UNCHANGED <<nextId, now, reqs, lastNum>>
  /\ UNCHANGED side
  \* a write to a key that an open transaction has inserted waits for it
  /\ b.taskCode \notin PendingCodes(0)
  /\ \E strict \in NullChoices(b) :
       IF UpdateInvalid(b, strict)
         THEN /\ resp' = [op |-> "updateTask", code |-> Thrown]
              /\ UNCHANGED tasks
       ELSE IF id \notin DOMAIN tasks
         THEN /\ resp' = [op |-> "updateTask", code |-> 404]
              /\ UNCHANGED tasks
       ELSE IF b.taskCode # NoCode /\ DuplicateKey(b.taskCode, 0, id)
         THEN /\ resp' = [op |-> "updateTask", code |-> Thrown]
              /\ UNCHANGED tasks
       ELSE /\ tasks' = [tasks EXCEPT ![id] = Patched(tasks[id], b)]
            /\ resp' = [op |-> "updateTask", code |-> 200]

\* ---------------------------------------------------------------- deleteTask
\* a delete that answers 204 whether or not it found the task
DeleteTask_Quiet(u, id) ==
  /\ UNCHANGED <<nextId, now, reqs, lastNum>>
  /\ UNCHANGED side
  /\ tasks' = Restrict(tasks, DOMAIN tasks \ {id})
  /\ resp' = [op |-> "deleteTask", code |-> 204]

DeleteTask(u, id) ==
  /\ UNCHANGED <<nextId, now, reqs, lastNum>>
  /\ UNCHANGED side
  /\ IF id \notin DOMAIN tasks
       THEN /\ resp' = [op |-> "deleteTask", code |-> 404]
            /\ UNCHANGED tasks
       ELSE /\ tasks' = Restrict(tasks, DOMAIN tasks \ {id})
            /\ resp' = [op |-> "deleteTask", code |-> 204]

\* -------------------------------------------------------------------- getTask
\* populate('assignedTo'): the user documents of the identifiers that resolve
Populate(ids) == SelectSeq(ids, LAMBDA a : a \in Users)

\* a permission check without the administrators' clause
MayView_NoAdmin(task, u) ==
  \/ task.createdBy = u
  \/ \E i \in DOMAIN Populate(task.assignedTo) : Populate(task.assignedTo)[i] = u

\* isCreator || isAssignee || req.user.role === 'admin'
MayView(task, u) ==
  \/ task.createdBy = u
  \/ \E i \in DOMAIN Populate(task.assignedTo) : Populate(task.assignedTo)[i] = u
  \/ Role(u) = "admin"

\* GET /:id
GetTask(u, id) ==
  /\ UNCHANGED <<tasks, nextId, now, reqs, lastNum>>
  /\ UNCHANGED side
  /\ IF id \notin DOMAIN tasks
       THEN resp' = [op |-> "getTask", code |-> 404, user |-> u, id |-> id]
     ELSE IF ~MayView(tasks[id], u)
       THEN resp' = [op |-> "getTask", code |-> 403, user |-> u, id |-> id]
     ELSE resp' = [op |-> "getTask", code |-> 200, user |-> u, id |-> id]

\* ---------------------------------------------------------------- getAllTasks
\* A numeric query parameter is the number its digits spell; NoParam is a
\* parameter the query string does not carry.
NoParam == -2

\* req.query.x * 1
TimesOne(x) == IF x = NoParam THEN NaN ELSE x

\* n || d
OrElse(n, d) == IF n = NaN \/ n = 0 THEN d ELSE n

DefaultPage == 1
DefaultLimit == 10

\* baseQuery: { $or: [{ createdBy: userId }, { assignedTo: userId }] }
BaseQuery(task, userId) ==
  \/ task.createdBy = userId
  \/ \E i \in DOMAIN task.assignedTo : task.assignedTo[i] = userId

\* one condition of a $or array that arrives in the query string
Clause(task, c) ==
  CASE c.field = "createdBy" -> task.createdBy = c.val
    [] c.field = "status" -> task.status = c.val

\* filter = { ...baseQuery, ...queryObj }: a $or among the query parameters
\* takes the place of baseQuery's, every other parameter is a further condition
Filter(task, q) ==
  /\ IF q.or = Absent THEN BaseQuery(task, q.userId)
     ELSE \E i \in DOMAIN q.or : Clause(task, q.or[i])
  /\ q.status = Absent \/ task.status = q.status

\* the documents that filter selects
Matching(q) == {i \in DOMAIN tasks : Filter(tasks[i], q)}

\* the position of a priority in the ascending order of a sort: null before
\* the strings, the strings in lexicographic order
PriorityRank(pr) ==
  CASE pr = Null -> 0
    [] pr = "high" -> 1
    [] pr = "low" -> 2
    [] pr = "medium" -> 3

\* the sort key of a document: '-createdAt' unless req.query.sort names a field
SortKey(task, sort) ==
  IF sort = Absent THEN 0 - task.createdAt ELSE PriorityRank(task.priority)

\* The orders in which a sorted find may return the documents S: every
\* arrangement with non-decreasing sort keys.  The order of documents with
\* equal keys is not determined by the query.
Orders(S, sort) ==
  {o \in [1..Cardinality(S) -> S] :
     /\ \A i, j \in DOMAIN o : i # j => o[i] # o[j]
     /\ \A i, j \in DOMAIN o :
          i < j => SortKey(tasks[o[i]], sort) <= SortKey(tasks[o[j]], sort)}

\* query.skip(skip).limit(limit)
Window(o, skip, limit) ==
  SubSeq(o, skip + 1, IF skip + limit < Len(o) THEN skip + limit ELSE Len(o))

\* a count of the whole collection
Total_All(q) == Cardinality(DOMAIN tasks)

\* Task.countDocuments(filter)
Total(q) == Cardinality(Matching(q))

\* what the find of a list request may return, for the query parameters q
ListResults(q) ==
  LET page == OrElse(TimesOne(q.page), DefaultPage)
      limit == OrElse(TimesOne(q.limit), DefaultLimit)
      skip == (page - 1) * limit
  IN  {Window(o, skip, limit) : o \in Orders(Matching(q), q.sort)}

\* GET /
GetAllTasks(u, q) ==
  /\ UNCHANGED <<tasks, nextId, now, reqs, lastNum>>
  /\ UNCHANGED side
  /\ IF q.userId = Absent
       THEN resp' = [op |-> "getAllTasks", code |-> 400, query |-> q, user |-> u]
       ELSE \E r \in ListResults(q) :
              resp' = [op |-> "getAllTasks", code |-> 200, query |-> q, user |-> u,
                       results |-> Len(r), total |-> Total(q),
                       tasks |-> r]

\* --------------------------------------------------------------- getTaskStats
\* authController.restrictTo('admin') of the /stats route
RestrictTo(u) == Role(u) = "admin"

\* a $switch that scores medium like low
Score_MediumLow(pr) ==
  CASE pr = "high" -> 3
    [] pr = "medium" -> 1
    [] pr = "low" -> 1
    [] OTHER -> 0

\* the $switch of avgPriority
Score(pr) ==
  CASE pr = "high" -> 3
    [] pr = "medium" -> 2
    [] pr = "low" -> 1
    [] OTHER -> 0

\* $sum of the scores of the documents S
RECURSIVE SumScores(_)
SumScores(S) ==
  IF S = {} THEN 0
  ELSE LET x == CHOOSE y \in S : TRUE
       IN  Score(tasks[x].priority) + SumScores(S \ {x})

RECURSIVE Gcd(_, _)
Gcd(a, b) == IF b = 0 THEN a ELSE Gcd(b, a % b)

\* $avg: the quotient sum / n as a fraction in lowest terms
Avg(sum, n) == [num |-> sum \div Gcd(sum, n), den |-> n \div Gcd(sum, n)]

\* the status values in the order of $sort: { _id: 1 }
StatusOrder == <<"completed", "in-progress", "overdue", "todo">>

\* the $group stage for one status value
Group(st) ==
  LET ids == {i \in DOMAIN tasks : tasks[i].status = st}
  IN  [status |-> st, count |-> Cardinality(ids),
       avgPriority |-> Avg(SumScores(ids), Cardinality(ids))]

\* the result of the aggregation
Stats ==
  LET present == SelectSeq(StatusOrder,
                           LAMBDA st : \E i \in DOMAIN tasks : tasks[i].status = st)
  IN  [k \in DOMAIN present |-> Group(present[k])]

\* GET /stats
GetTaskStats(u) ==
  /\ UNCHANGED <<tasks, nextId, now, reqs, lastNum>>
  /\ UNCHANGED side
  /\ IF ~RestrictTo(u)
       THEN resp' = [op |-> "getTaskStats", code |-> 403]
       ELSE resp' = [op |-> "getTaskStats", code |-> 200, stats |-> Stats]

\* ------------------------------------------------------------- the gate
\* What a request carries in its Authorization header: nothing, a bearer
\* token that jwt.verify refuses, or a bearer token signed for a user id.
NoBearer == [kind |-> "none", id |-> Absent]
Forged == [kind |-> "forged", id |-> Absent]
Token(u) == [kind |-> "signed", id |-> u]
Credentials == {NoBearer, Forged} \cup {Token(u) : u \in Users \cup {Ghost}}

\* protect passes the request on to the handler
Pass == 0

\* the status protect answers with, or Pass
Protect(cred) ==
  IF cred.kind = "none" THEN 401
  ELSE IF cred.kind = "forged" THEN 401
  ELSE IF cred.id \notin Users THEN 404
  ELSE Pass

\* the users whose requests reach a handler (req.user)
Admitted == {c.id : c \in {c \in Credentials : Protect(c) = Pass}}

\* a request that protect answers itself: next(new AppError(...))
Rejected(cred) ==
  /\ Protect(cred) # Pass
  /\ resp' = [op |-> "protect", code |-> Protect(cred), cred |-> cred]
  /\ UNCHANGED <<tasks, nextId, now, reqs, lastNum, clients, nextClient, auth, txns>>

\* ------------------------------------------------------------ the clients
\* A client body is a record of the fields it carries: name (Absent when the
\* body has none) and createdBy (Absent when the body has none).

\* the filter { _id: req.params.id, createdBy: req.user._id }
Owned(id, u) == id \in DOMAIN clients /\ clients[id].createdBy = u

\* POST /api/clients
CreateClient(u, b) ==
  /\ nextClient <= MaxClients
  /\ UNCHANGED <<tasks, nextId, now, reqs, lastNum, auth, txns>>
  /\ IF b.name = Absent
       THEN /\ resp' = [op |-> "createClient", code |-> Thrown, user |-> u]
            /\ UNCHANGED <<clients, nextClient>>
       ELSE /\ clients' = (nextClient :> [name |-> b.name, createdBy |-> u]) @@ clients
            /\ nextClient' = nextClient + 1
            /\ resp' = [op |-> "createClient", code |-> 201, user |-> u]

\* GET /api/clients
GetAllClients(u) ==
  /\ UNCHANGED <<tasks, nextId, now, reqs, lastNum, clients, nextClient, auth, txns>>
  /\ resp' = [op |-> "getAllClients", code |-> 200, user |-> u,
              clients |-> {id \in DOMAIN clients : clients[id].createdBy = u}]

\* GET /api/clients/:id
GetClient(u, id) ==
  /\ UNCHANGED <<tasks, nextId, now, reqs, lastNum, clients, nextClient, auth, txns>>
  /\ IF ~Owned(id, u)
       THEN resp' = [op |-> "getClient", code |-> 404, user |-> u, id |-> id]
       ELSE resp' = [op |-> "getClient", code |-> 200, user |-> u, id |-> id]

\* the document after the $set of the fields the body carries
PatchedClient(client, b) ==
  [client EXCEPT
     !.name = IF b.name = Absent THEN @ ELSE b.name,
     !.createdBy = IF b.createdBy = Absent THEN @ ELSE b.createdBy]

\* PATCH /api/clients/:id
UpdateClient(u, id, b) ==
  /\ UNCHANGED <<tasks, nextId, now, reqs, lastNum, nextClient, auth, txns>>
  /\ IF ~Owned(id, u)
       THEN /\ resp' = [op |-> "updateClient", code |-> 404, user |-> u, id |-> id]
            /\ UNCHANGED clients
       ELSE /\ clients' = [clients EXCEPT ![id] = PatchedClient(clients[id], b)]
            /\ resp' = [op |-> "updateClient", code |-> 200, user |-> u, id |-> id]

\* DELETE /api/clients/:id
DeleteClient(u, id) ==
  /\ UNCHANGED <<tasks, nextId, now, reqs, lastNum, nextClient, auth, txns>>
  /\ IF ~Owned(id, u)
       THEN /\ resp' = [op |-> "deleteClient", code |-> 404, user |-> u, id |-> id]
            /\ UNCHANGED clients
       ELSE /\ clients' = Restrict(clients, DOMAIN clients \ {id})
            /\ resp' = [op |-> "deleteClient", code |-> 204, user |-> u, id |-> id]

\* GET /api/clients/search?query=...: the text index matches a client whose
\* name is the word searched for
SearchClients(u, query) ==
  /\ UNCHANGED <<tasks, nextId, now, reqs, lastNum, clients, nextClient, auth, txns>>
  /\ IF query = Absent
       THEN resp' = [op |-> "searchClients", code |-> 400, user |-> u]
       ELSE resp' = [op |-> "searchClients", code |-> 200, user |-> u,
                     clients |-> {id \in DOMAIN clients :
                                    /\ clients[id].name = query
                                    /\ clients[id].createdBy = u}]

\* ---------------------------------------------------------- the auth slice
\* The store of the frontend.  A thunk in flight is a record of its name and
\* of the token its request carries (getMe reads auth.token when it starts;
\* login and register carry none).

\* the tokens the server hands out
Tokens == {"t1", "t2"}

Flight(thunk, tok) == [thunk |-> thunk, token |-> tok]

\* the page loads: initialState, with whatever localStorage holds
InitSession ==
  /\ InitServer
  /\ \E tok \in {NoToken} \cup Tokens : auth = InitialAuth(tok)

\* dispatch(login(...)) / dispatch(register(...)): the pending reducer
AuthPending(thunk) ==
  /\ thunk \in {"login", "register"}
  /\ \A f \in auth.inFlight : f.thunk # thunk
  /\ auth' = [auth EXCEPT !.status = "loading",
                          !.inFlight = @ \cup {Flight(thunk, NoToken)}]
  /\ UNCHANGED <<tasks, nextId, now, reqs, resp, lastNum, clients, nextClient, txns>>

\* login.fulfilled / register.fulfilled
AuthFulfilled(thunk, tok) ==
  /\ Flight(thunk, NoToken) \in auth.inFlight
  /\ thunk \in {"login", "register"}
  /\ auth' = [auth EXCEPT !.status = "succeeded",
                          !.user = "u1",
                          !.token = tok,
                          !.isAuthenticated = TRUE,
                          !.inFlight = @ \ {Flight(thunk, NoToken)}]
  /\ UNCHANGED <<tasks, nextId, now, reqs, resp, lastNum, clients, nextClient, txns>>

\* login.rejected / register.rejected
AuthRejected(thunk) ==
  /\ Flight(thunk, NoToken) \in auth.inFlight
  /\ thunk \in {"login", "register"}
  /\ auth' = [auth EXCEPT !.status = "failed",
                          !.error = thunk,
                          !.inFlight = @ \ {Flight(thunk, NoToken)}]
  /\ UNCHANGED <<tasks, nextId, now, reqs, resp, lastNum, clients, nextClient, txns>>

\* dispatch(getMe()): the pending reducer, and the payload creator up to its
\* request, which carries the token the store holds now
GetMePending ==
  /\ \A f \in auth.inFlight : f.thunk # "getMe"
  /\ auth' = [auth EXCEPT !.status = "loading",
                          !.inFlight = @ \cup {Flight("getMe", auth.token)}]
  /\ UNCHANGED <<tasks, nextId, now, reqs, resp, lastNum, clients, nextClient, txns>>

\* getMe.fulfilled: the server has answered a request that carried a token
GetMeFulfilled ==
  /\ \E f \in auth.inFlight :
       /\ f.thunk = "getMe"
       /\ f.token # NoToken
       /\ auth' = [auth EXCEPT !.status = "succeeded",
                               !.user = "u1",
                               !.isAuthenticated = TRUE,
                               !.inFlight = @ \ {f}]
  /\ UNCHANGED <<tasks, nextId, now, reqs, resp, lastNum, clients, nextClient, txns>>

\* getMe.rejected: no token in the store when it started, or the request failed
GetMeRejected ==
  /\ \E f \in auth.inFlight :
       /\ f.thunk = "getMe"
       /\ auth' = [auth EXCEPT !.status = "failed",
                               !.isAuthenticated = FALSE,
                               !.token = NoToken,
                               !.inFlight = @ \ {f}]
  /\ UNCHANGED <<tasks, nextId, now, reqs, resp, lastNum, clients, nextClient, txns>>

\* the logout reducer
LoggedOut(a) ==
  [a EXCEPT !.user = NoUser, !.token = NoToken, !.isAuthenticated = FALSE,
            !.status = "idle", !.error = "null"]

\* dispatch(logout()) by the user
Logout ==
  /\ auth' = LoggedOut(auth)
  /\ UNCHANGED <<tasks, nextId, now, reqs, resp, lastNum, clients, nextClient, txns>>

\* the response interceptor of the api instance: a request of another slice
\* is answered 401, and the interceptor dispatches logout()
Intercept401 ==
  /\ auth' = LoggedOut(auth)
  /\ UNCHANGED <<tasks, nextId, now, reqs, resp, lastNum, clients, nextClient, txns>>

\* ------------------------------------------------------------------ time
Tick ==
  /\ now < MaxTime
  /\ now' = now + 1
  /\ UNCHANGED <<tasks, nextId, reqs, resp, lastNum>>
  /\ UNCHANGED side

\* ---------------------------------------------------------- input domains
\* A patch that sets nothing, and the one-field patches built from it.
NoPatch == [assignedTo |-> NoAssignee, status |-> Absent, priority |-> Absent,
            dueDate |-> NoDate, taskCode |-> NoCode]

\* request bodies of POST /
CreateBodies ==
  [assignedTo : {NoAssignee, Array(<< >>), Scalar("u1"), Array(<<"u2", Ghost>>),
                 Array(<<"u1", Malformed>>)},
   status : {Absent, "archived"},
   priority : {Absent},
   dueDate : {NoDate, 1},
   title : BOOLEAN,
   client : {1},
   createdBy : {Absent}]

\* request bodies of PATCH /:id
UpdateBodies ==
  {[NoPatch EXCEPT !.taskCode = DefaultCode]}
  \cup {[NoPatch EXCEPT !.assignedTo = a] : a \in {Scalar("u2"), Array(<<Malformed>>)}}
  \cup {[NoPatch EXCEPT !.status = st] : st \in {"completed", "archived"}}
  \cup {[NoPatch EXCEPT !.dueDate = 1]}

\* req.body.status of PATCH /:id/status
StatusInputs == {Absent, "in-progress", "completed", "archived"}

\* the inputs of the runs that follow the task codes
PlainBody == [assignedTo |-> Scalar("u1"), status |-> Absent, priority |-> Absent,
              dueDate |-> NoDate, title |-> TRUE, client |-> 1,
              createdBy |-> Absent]
CodeBodies == {[NoPatch EXCEPT !.taskCode = c] :
                 c \in {DefaultCode, <<"T", "a">>, <<"T", "9", "9", "9", "9">>}}

\* the inputs of the runs that follow the assignees and the creator
AssignBodies ==
  {[PlainBody EXCEPT !.assignedTo = a, !.createdBy = c] :
     a \in {NoAssignee, Array(<< >>), Scalar("u1"), Scalar(Ghost),
            Array(<<"u1", "u1">>), Array(<<"u2", "u1">>), Array(<<"u1", Ghost>>)},
     c \in {Absent, "u2"}}
AssignPatches ==
  {[NoPatch EXCEPT !.assignedTo = a] :
     a \in {Array(<< >>), Scalar("u2"), Scalar(Ghost), Array(<<"u1", "u2">>)}}

\* the inputs of the runs that read single tasks
ViewBodies == {[PlainBody EXCEPT !.assignedTo = Scalar(a)] : a \in Users}
ViewPatches == {[NoPatch EXCEPT !.assignedTo = Scalar(Ghost)]}

\* the inputs of the runs that list the tasks
ListBodies ==
  {[PlainBody EXCEPT !.assignedTo = Scalar(a), !.priority = pr] :
     a \in Users, pr \in {Absent, "high"}}
Queries ==
  [userId : {Absent, "u1", "u2"},
   sort : {Absent, "priority"},
   page : {NoParam, 2},
   limit : {NoParam, 1},
   status : {Absent},
   or : {Absent}]

\* the inputs of the runs that filter the list
FilterBodies == {[PlainBody EXCEPT !.assignedTo = Scalar(a)] : a \in Users}
FilterQueries ==
  [userId : Users,
   sort : {Absent},
   page : {NoParam},
   limit : {NoParam},
   status : {Absent, "completed"},
   or : {Absent, <<[field |-> "status", val |-> "todo"]>>}]

\* the inputs of the runs that aggregate the tasks
StatsBodies ==
  {[PlainBody EXCEPT !.priority = pr, !.dueDate = d] :
     pr \in {Absent, "low", "high"}, d \in {NoDate, 1}}
StatsPatches == {[NoPatch EXCEPT !.priority = Null]}

\* the inputs of the runs that work on the clients
ClientNames == {"acme", "zenith"}
ClientBodies == [name : ClientNames \cup {Absent}, createdBy : {Absent, "u2"}]
ClientPatches ==
  {[name |-> "zenith", createdBy |-> Absent], [name |-> Absent, createdBy |-> "u2"]}

\* create bodies that name the first client, a later one, or none
ClientTaskBodies ==
  {[PlainBody EXCEPT !.client = c] : c \in {NoClient} \cup ClientIds}

\* ------------------------------------------------------------ the system
\* create requests of the processes PS, by the users RQ, with the bodies CB
NextCreate(PS, RQ, CB) ==
  \/ \E p \in PS, u \in RQ, b \in CB : CreateBegin(p, u, b)
  \/ \E p \in PS : CreateGenerate(p)
  \/ \E p \in PS : CreateInsert(p)
  \/ \E p \in PS : CreateCommit(p)
  \/ Tick

NextOf(PS, RQ, CB, UB, SI) ==
  \/ NextCreate(PS, RQ, CB)
  \/ \E u \in Users, id \in TaskIds, st \in SI : UpdateTaskStatus(u, id, st)
  \/ \E u \in Users, id \in TaskIds, b \in UB : UpdateTask(u, id, b)
  \/ \E u \in Users, id \in TaskIds : DeleteTask(u, id)

\* one create request at a time, every kind of input
Next == NextOf({1}, Users, CreateBodies, UpdateBodies, StatusInputs)
Spec == Init /\ [][Next]_vars

\* create requests in flight together, among the other operations
NextRace == NextOf(Procs, {"u1"}, {PlainBody}, CodeBodies, {"completed"})
SpecRace == Init /\ [][NextRace]_vars

\* nothing but create requests, in flight together
NextCreateOnly == NextCreate(Procs, Users, {PlainBody, [PlainBody EXCEPT !.title = FALSE]})
SpecCreate == Init /\ [][NextCreateOnly]_vars

\* Every awaited call of an invocation returns, and the handler then runs on:
\* a create request that is in flight takes its next step.
SpecCreateFair ==
  /\ SpecCreate
  /\ \A p \in Procs : WF_vars(CreateGenerate(p) \/ CreateInsert(p) \/ CreateCommit(p))

\* one create request at a time, the assignee and creator inputs
NextAssign == NextOf({1}, Users, AssignBodies, AssignPatches, {"completed"})
SpecAssign == Init /\ [][NextAssign]_vars

\* reads of single tasks among creates, assignee updates and deletes
NextView ==
  \/ NextCreate({1}, Users, ViewBodies)
  \/ \E u \in Users, id \in TaskIds, b \in ViewPatches : UpdateTask(u, id, b)
  \/ \E u \in Users, id \in TaskIds : DeleteTask(u, id)
  \/ \E u \in Users, id \in TaskIds : GetTask(u, id)
SpecView == Init /\ [][NextView]_vars

\* list requests among creates and deletes
NextList ==
  \/ NextCreate({1}, {"u1"}, ListBodies)
  \/ \E id \in TaskIds : DeleteTask("u1", id)
  \/ \E q \in Queries : GetAllTasks("u1", q)
SpecList == Init /\ [][NextList]_vars

\* the statistics among creates, status updates and priority updates
NextStats ==
  \/ NextCreate({1}, {"u1"}, StatsBodies)
  \/ \E id \in TaskIds : UpdateTaskStatus("u1", id, "completed")
  \/ \E id \in TaskIds, b \in StatsPatches : UpdateTask("u1", id, b)
  \/ \E u \in Users : GetTaskStats(u)
SpecStats == Init /\ [][NextStats]_vars

\* the client operations of every user
NextClients ==
  \/ \E u \in Users, b \in ClientBodies : CreateClient(u, b)
  \/ \E u \in Users : GetAllClients(u)
  \/ \E u \in Users, id \in ClientIds : GetClient(u, id)
  \/ \E u \in Users, id \in ClientIds, b \in ClientPatches : UpdateClient(u, id, b)
  \/ \E u \in Users, id \in ClientIds : DeleteClient(u, id)
  \/ \E u \in Users, q \in ClientNames \cup {Absent} : SearchClients(u, q)
SpecClients == Init /\ [][NextClients]_vars

\* task creation by one user among that user's client creations and deletions
NextClientTasks ==
  \/ NextCreate({1}, {"u1"}, ClientTaskBodies)
  \/ \E b \in {[name |-> "acme", createdBy |-> Absent]} : CreateClient("u1", b)
  \/ \E id \in ClientIds : DeleteClient("u1", id)
SpecClientTasks == Init /\ [][NextClientTasks]_vars

\* requests with every kind of credential in front of handlers that write
NextGate ==
  \/ \E cred \in Credentials : Rejected(cred)
  \/ NextCreate({1}, Admitted, {PlainBody})
  \/ \E u \in Admitted, id \in TaskIds : DeleteTask(u, id)
  \/ \E u \in Admitted, b \in {[name |-> "acme", createdBy |-> Absent]} : CreateClient(u, b)
  \/ \E u \in Admitted, id \in ClientIds : DeleteClient(u, id)
SpecGate == Init /\ [][NextGate]_vars

\* list requests with further query parameters, by every user, among creates
\* and status updates
NextFilter ==
  \/ NextCreate({1}, Users, FilterBodies)
  \/ \E u \in Users, id \in TaskIds : UpdateTaskStatus(u, id, "completed")
  \/ \E u \in Users, q \in FilterQueries : GetAllTasks(u, q)
SpecFilter == Init /\ [][NextFilter]_vars

\* the auth store under every interleaving of its thunks and reducers
NextSession ==
  \/ \E thunk \in {"login", "register"} : AuthPending(thunk)
  \/ \E thunk \in {"login", "register"}, tok \in Tokens : AuthFulfilled(thunk, tok)
  \/ \E thunk \in {"login", "register"} : AuthRejected(thunk)
  \/ GetMePending
  \/ GetMeFulfilled
  \/ GetMeRejected
  \/ Logout
  \/ Intercept401
SpecSession == InitSession /\ [][NextSession]_vars

\* ================================================================ claims
\* the identifiers of a request body that are no user's
Unresolved(b) == {a \in Range(Normalize(b.assignedTo)) : a \notin Users}

\* C1: a create request with an assignee identifier that resolves to no user
\* is answered 400 with exactly the unresolved identifiers in the message,
\* and the task collection is left as it was.
C1_CreateAtomicity ==
  [][\A p \in Procs, u \in Users, b \in CreateBodies :
       (Unresolved(b) # {} /\ CreateBegin(p, u, b))
         => /\ resp'.op = "createTask"
            /\ resp'.code = 400
            /\ Range(resp'.missing) = Unresolved(b)
            /\ tasks' = tasks]_vars

\* C2: no two persisted tasks have the same task code.
C2_CodeUnique ==
  \A i \in DOMAIN tasks, j \in DOMAIN tasks :
    i # j => tasks[i].taskCode # tasks[j].taskCode

\* two tasks are persisted and a create request lost its insert to a
\* duplicate key
C2_Witness ==
  /\ Cardinality(DOMAIN tasks) = 2
  /\ \E p \in Procs : reqs[p].pc = "done" /\ reqs[p].http = 500 /\ reqs[p].tries = 1

\* C3: with create requests running one at a time, every created task has a
\* numeric code suffix greater than that of the task created before it,
\* whatever was updated or deleted in between.
C3_CodeMonotonic ==
  [][\A p \in Procs :
       (CreateCommit(p) /\ lastNum # NaN) => lastNum' > lastNum]_vars

\* the outcome of the create request of process p, once it has inserted
Inserted(p) == reqs[p].pc \in {"com", "done"} /\ (reqs[p].pc = "done" => reqs[p].tries = 1)
CodeOf(p) == IF reqs[p].pc = "com" THEN reqs[p].doc.taskCode ELSE reqs[p].code
Succeeded(p) == reqs[p].pc = "com" \/ reqs[p].http = 201

C5_CodeImmutable ==
  [][\A i \in (DOMAIN tasks) \cap (DOMAIN tasks') :
       tasks'[i].taskCode = tasks[i].taskCode]_vars

\* the number a string of decimal digits denotes
DigitTable == [c \in {"0", "1", "2", "3", "4", "5", "6", "7", "8", "9"} |->
                CASE c = "0" -> 0 [] c = "1" -> 1 [] c = "2" -> 2 [] c = "3" -> 3
                  [] c = "4" -> 4 [] c = "5" -> 5 [] c = "6" -> 6 [] c = "7" -> 7
                  [] c = "8" -> 8 [] c = "9" -> 9]
AllDigits(s) == Len(s) > 0 /\ \A i \in DOMAIN s : s[i] \in DOMAIN DigitTable
RECURSIVE Decimal(_)
Decimal(s) ==
  IF Len(s) = 0 THEN 0
  ELSE 10 * Decimal(SubSeq(s, 1, Len(s) - 1)) + DigitTable[s[Len(s)]]
Tail1(s) == SubSeq(s, 2, Len(s))

\* code c is "T" followed by the decimal numeral of n, zero-padded to width 4
IsCodeOf(c, n) ==
  /\ Len(c) >= 5
  /\ c[1] = "T"
  /\ AllDigits(Tail1(c))
  /\ Decimal(Tail1(c)) = n
  /\ (Len(c) > 5 => c[2] # "0")

\* C6: the code generated for a new task is T0001 when no task is persisted,
\* and otherwise "T" followed by n+1 zero-padded to width 4, n being the
\* numeric suffix of the code of a task with the latest creation timestamp.
C6_CodeGeneration ==
  [][\A p \in Procs :
       CreateGenerate(p) =>
         LET c == reqs'[p].doc.taskCode
             last == reqs'[p].read
         IN  IF DOMAIN tasks = {}
               THEN last = 0 /\ c = <<"T", "0", "0", "0", "1">>
               ELSE /\ last \in DOMAIN tasks
                    /\ \A j \in DOMAIN tasks :
                         tasks[j].createdAt <= tasks[last].createdAt
                    /\ AllDigits(Tail1(tasks[last].taskCode))
                         => IsCodeOf(c, Decimal(Tail1(tasks[last].taskCode)) + 1)]_vars

\* a request generated T10000 from the latest task's T9999
C6_Witness ==
  \E p \in Procs :
    /\ reqs[p].pc = "ins"
    /\ reqs[p].read \in DOMAIN tasks
    /\ tasks[reqs[p].read].taskCode = <<"T", "9", "9", "9", "9">>
    /\ reqs[p].doc.taskCode = <<"T", "1", "0", "0", "0", "0">>

\* C7: the status of every persisted task is todo, in-progress or completed.
C7_StatusConfined ==
  \A i \in DOMAIN tasks : tasks[i].status \in {"todo", "in-progress", "completed"}

\* C8: a status update answered 200 leaves the task with the requested
\* status and changes nothing else.
C8_StatusUpdateEffect ==
  [][\A u \in Users, id \in TaskIds, st \in StatusInputs :
       (resp'.code = 200 /\ UpdateTaskStatus(u, id, st))
         => /\ tasks'[id].status = st
            /\ tasks' = [tasks EXCEPT ![id].status = st]]_vars

\* u is neither the creator nor an assignee of the task
Stranger(u, id) ==
  /\ id \in DOMAIN tasks
  /\ tasks[id].createdBy # u
  /\ u \notin Range(tasks[id].assignedTo)

\* C9: a status update by a user who is neither creator nor assignee, the
\* administrator included, is answered 403 and changes no task.
C9_StatusAuthz ==
  [][\A u \in Users, id \in TaskIds, st \in StatusInputs :
       (Stranger(u, id) /\ UpdateTaskStatus(u, id, st))
         => /\ resp'.op = "updateTaskStatus"
            /\ resp'.code = 403
            /\ tasks' = tasks]_vars

\* the administrator u2 was answered 403: u1 created every task and is its
\* only assignee
C9_Witness ==
  /\ resp.op = "updateTaskStatus"
  /\ resp.code = 403
  /\ DOMAIN tasks # {}
  /\ \A i \in DOMAIN tasks :
       tasks[i].createdBy = "u1" /\ Range(tasks[i].assignedTo) = {"u1"}
  /\ Role("u2") = "admin"

\* C10: a status update by the creator or an assignee with a value outside
\* todo, in-progress, completed (or with none) is answered 400 and changes
\* no task.
C10_StatusValidation ==
  [][\A u \in Users, id \in TaskIds, st \in StatusInputs :
       (/\ id \in DOMAIN tasks
        /\ ~Stranger(u, id)
        /\ st \notin {"todo", "in-progress", "completed"}
        /\ UpdateTaskStatus(u, id, st))
         => /\ resp'.op = "updateTaskStatus"
            /\ resp'.code = 400
            /\ tasks' = tasks]_vars

\* an authorized status update was answered 400
C10_Witness ==
  /\ resp.op = "updateTaskStatus"
  /\ resp.code = 400
  /\ DOMAIN tasks # {}

\* every identifier of the request body is a user's, and the other fields are
\* valid
Resolvable(b) ==
  /\ ~NoAssignees(b.assignedTo)
  /\ Unresolved(b) = {}
  /\ b.title
  /\ b.status \in StatusEnum \cup {Absent}
  /\ b.priority \in PriorityEnum \cup {Absent}

\* C11: a create request whose assignee list is non-empty and whose every
\* identifier resolves to a user passes the assignee checks with exactly the
\* requested identifiers as the assignees of the document to save, and the
\* "users do not exist" error is given only to a request with an identifier
\* that does not resolve.
C11_AssigneeExistence ==
  [][\A p \in Procs, u \in Users, b \in AssignBodies :
       /\ (Resolvable(b) /\ CreateBegin(p, u, b))
            => /\ reqs'[p].pc = "gen"
               /\ Range(reqs'[p].doc.assignedTo) = Range(Normalize(b.assignedTo))
       /\ (Unresolved(b) = {} /\ CreateBegin(p, u, b))
            => ~(reqs'[p].pc = "done" /\ resp'.msg = "users do not exist")]_vars

\* C12: a create request without an assignedTo field, or with an empty
\* array, is answered 400 and leaves the task collection as it was; every
\* task that create persists has at least one assignee.
C12_EmptyAssigneeRejected ==
  [][/\ \A p \in Procs, u \in Users, b \in AssignBodies :
          (b.assignedTo \in {NoAssignee, Array(<< >>)} /\ CreateBegin(p, u, b))
            => /\ reqs'[p].pc = "done"
               /\ resp'.op = "createTask"
               /\ resp'.code = 400
               /\ tasks' = tasks
     /\ \A p \in Procs :
          (reqs[p].pc = "com" /\ CreateCommit(p))
            => Len(tasks'[nextId].assignedTo) >= 1]_vars

\* a request without assignees was refused while a task was in the collection
C12_Witness ==
  /\ resp.op = "createTask"
  /\ resp.code = 400
  /\ resp.msg = "assignee required"
  /\ DOMAIN tasks # {}

\* C13: every persisted task has a non-empty assignee list.
C13_AssigneeNonEmpty ==
  \A id \in DOMAIN tasks : Len(tasks[id].assignedTo) >= 1

\* C14: a create request or a full update that gives assignedTo as a single
\* identifier persists the task with the one-element list of that
\* identifier.
C14_ScalarNormalized ==
  [][/\ \A p \in Procs, u \in Users, b \in AssignBodies :
          (b.assignedTo.kind = "scalar" /\ CreateBegin(p, u, b) /\ reqs'[p].pc = "gen")
            => reqs'[p].doc.assignedTo = <<b.assignedTo.val>>
     /\ \A p \in Procs :
          (reqs[p].pc \in {"gen", "ins"} /\ reqs'[p].pc \in {"ins", "com"})
            => reqs'[p].doc.assignedTo = reqs[p].doc.assignedTo
     /\ \A p \in Procs :
          (reqs[p].pc = "com" /\ CreateCommit(p))
            => tasks'[nextId].assignedTo = reqs[p].doc.assignedTo
     /\ \A u \in Users, id \in TaskIds, b \in AssignPatches :
          (b.assignedTo.kind = "scalar" /\ UpdateTask(u, id, b) /\ resp'.code = 200)
            => tasks'[id].assignedTo = <<b.assignedTo.val>>]_vars

\* one task created with a single identifier, another updated with one
C14_Witness ==
  \E i \in DOMAIN tasks, j \in DOMAIN tasks :
    /\ tasks[i].assignedTo = <<"u1">>
    /\ tasks[j].assignedTo = <<Ghost>>

\* C20: the creator of every task that create persists is the authenticated
\* user who sent the request, whatever createdBy the request body carries.
C20_CreatorIsRequester ==
  [][/\ \A p \in Procs, u \in Users, b \in AssignBodies :
          (CreateBegin(p, u, b) /\ reqs'[p].pc = "gen")
            => /\ reqs'[p].user = u
               /\ reqs'[p].doc.createdBy = u
     /\ \A p \in Procs :
          (reqs[p].pc \in {"gen", "ins"} /\ reqs'[p].pc \in {"ins", "com"})
            => /\ reqs'[p].user = reqs[p].user
               /\ reqs'[p].doc.createdBy = reqs[p].doc.createdBy
     /\ \A p \in Procs :
          (reqs[p].pc = "com" /\ CreateCommit(p))
            => tasks'[nextId].createdBy = reqs[p].user]_vars

\* u1 has just created a task with a body that names u2 as the creator
C20_Witness ==
  /\ resp.op = "createTask"
  /\ resp.code = 201
  /\ resp.user = "u1"
  /\ resp.asked = "u2"
  /\ tasks[nextId - 1].createdBy = "u1"

Scope(U) ==
  {i \in DOMAIN tasks : tasks[i].createdBy = U \/ U \in Range(tasks[i].assignedTo)}

\* the query string ?userId=U&sort=s&page=p&limit=L
Query(U, s, p, L) ==
  [userId |-> U, sort |-> s, page |-> p, limit |-> L, status |-> Absent, or |-> Absent]

\* what the pages 1..p of size L can hold, one after the other, each page
\* being the answer to a request of its own
RECURSIVE Concats(_, _, _, _)
Concats(U, s, L, p) ==
  IF p = 0 THEN {<< >>}
  ELSE {c \o r : c \in Concats(U, s, L, p - 1), r \in ListResults(Query(U, s, p, L))}

PageSizes == 1..MaxTasks

\* C16: the pages of a list request for user U without further filters hold
\* together exactly the tasks that U created or is assigned to.
C16_ListScoping ==
  \A U \in Users \cup {Ghost}, L \in PageSizes :
    \A c \in Concats(U, Absent, L, MaxTasks) : Range(c) = Scope(U)

\* the page size a list request asks for
AskedLimit(q) == IF q.limit = NoParam THEN 10 ELSE q.limit

\* C17: the total of a list response is the number of persisted tasks that
\* match the filter, whatever the page and the limit, and the page holds at
\* most limit tasks.
C17_PaginationTotal ==
  /\ \A U \in Users \cup {Ghost}, s \in {Absent, "priority"},
        p \in {NoParam} \cup (1..MaxTasks + 1), L \in {NoParam} \cup PageSizes :
       /\ Total(Query(U, s, p, L)) = Cardinality(Scope(U))
       /\ \A r \in ListResults(Query(U, s, p, L)) : Len(r) <= AskedLimit(Query(U, s, p, L))
  /\ (resp.op = "getAllTasks" /\ resp.code = 200)
       => /\ resp.total = Cardinality(Scope(resp.query.userId))
          /\ resp.results = Len(resp.tasks)
          /\ Len(resp.tasks) <= AskedLimit(resp.query)

\* a second page of size one was answered with one task and a total of two
C17_Witness ==
  /\ resp.op = "getAllTasks"
  /\ resp.code = 200
  /\ resp.query.page = 2
  /\ resp.query.limit = 1
  /\ Len(resp.tasks) = 1
  /\ resp.total = 2

\* C18: with the collection unchanged, the pages 1, 2, ... of size L are the
\* consecutive windows of the sorted list of the matching tasks: put one after
\* the other they are a sorted arrangement that holds every matching task
\* exactly once; an absent page is page 1 and an absent limit is 10.
C18_PaginationWindows ==
  \A U \in Users, s \in {Absent, "priority"} :
    /\ \A L \in PageSizes :
         \A c \in Concats(U, s, L, MaxTasks) : c \in Orders(Matching(Query(U, s, NoParam, L)), s)
    /\ \A L \in PageSizes :
         ListResults(Query(U, s, NoParam, L)) = ListResults(Query(U, s, 1, L))
    /\ \A p \in 1..MaxTasks :
         ListResults(Query(U, s, p, NoParam)) = ListResults(Query(U, s, p, 10))

\* the score of a priority: high 3, medium 2, low 1, anything else 0
PriorityScore(pr) ==
  IF pr = "high" THEN 3 ELSE IF pr = "medium" THEN 2 ELSE IF pr = "low" THEN 1 ELSE 0

\* the tasks in status st
InStatus(st) == {i \in DOMAIN tasks : tasks[i].status = st}

RECURSIVE ScoreSum(_)
ScoreSum(S) ==
  IF S = {} THEN 0
  ELSE LET x == CHOOSE y \in S : TRUE
       IN  PriorityScore(tasks[x].priority) + ScoreSum(S \ {x})

RECURSIVE CountSum(_, _)
CountSum(groups, k) ==
  IF k = 0 THEN 0 ELSE groups[k].count + CountSum(groups, k - 1)

\* the alphabetical order of the status names
NameBefore(a, b) ==
  \E i, j \in DOMAIN StatusOrder :
    i < j /\ StatusOrder[i] = a /\ StatusOrder[j] = b

\* C19: the statistics hold one group for each status value that a persisted
\* task has, with the number of tasks in that status and, as average
\* priority, the sum of their scores divided by that number; the groups are
\* in the order of the status names and their counts add up to the number of
\* persisted tasks.
C19_StatsAggregation ==
  (resp.op = "getTaskStats" /\ resp.code = 200)
    => LET g == resp.stats
       IN  /\ {g[k].status : k \in DOMAIN g} = {tasks[i].status : i \in DOMAIN tasks}
           /\ \A j, k \in DOMAIN g : j < k => NameBefore(g[j].status, g[k].status)
           /\ \A k \in DOMAIN g :
                /\ g[k].count = Cardinality(InStatus(g[k].status))
                /\ g[k].avgPriority.den > 0
                /\ g[k].avgPriority.num * g[k].count
                     = g[k].avgPriority.den * ScoreSum(InStatus(g[k].status))
           /\ CountSum(g, Len(g)) = Cardinality(DOMAIN tasks)

\* the statistics of two tasks in different statuses, one of them without a
\* priority the scores know
C19_Witness ==
  /\ resp.op = "getTaskStats"
  /\ resp.code = 200
  /\ Len(resp.stats) = 2
  /\ \E i \in DOMAIN tasks : tasks[i].priority = Null
  /\ \E i \in DOMAIN tasks : tasks[i].priority = "medium"

\* C21: every task that create persists names a client that is in the client
\* collection when the task is created, and a create request that names a
\* client identifier of no client persists nothing.
C21_ClientExists ==
  [][/\ \A p \in Procs, b \in ClientTaskBodies :
          (b.client \notin DOMAIN clients /\ CreateBegin(p, "u1", b))
            => /\ reqs'[p].pc = "done"
               /\ tasks' = tasks
     /\ \A p \in Procs :
          (reqs[p].pc = "com" /\ CreateCommit(p))
            => tasks'[nextId].client \in DOMAIN clients]_vars

\* C22: a full update or a delete that is requested by a user who is not the
\* task's creator neither modifies nor removes the task.
C22_OwnerEditsAndDeletes ==
  [][\A u \in Users, id \in DOMAIN tasks :
       (/\ tasks[id].createdBy # u
        /\ \/ \E b \in AssignPatches : UpdateTask(u, id, b)
           \/ DeleteTask(u, id))
         => (id \in DOMAIN tasks' /\ tasks'[id] = tasks[id])]_vars

\* C23: a request with no bearer token, with a token that fails verification,
\* or with a token whose user no longer exists is rejected by protect before
\* any handler runs: no task and no client changes, and the rejection is an
\* authorization error (401).
C23_GateRejects ==
  [][\A cred \in {NoBearer, Forged, Token(Ghost)} :
       (resp'.op = "protect" /\ Rejected(cred))
         => /\ tasks' = tasks /\ clients' = clients
            /\ resp'.code = 401]_vars

\* a body that the casts and the update validators let through
ValidPatch(b) == \A strict \in NullChoices(b) : ~UpdateInvalid(b, strict)

\* C24 (as stated): a full update, a status update or a delete of an
\* identifier that names no stored task is answered 404 and leaves the store
\* as it is; a delete that succeeds removes the named task and no other.
C24_NotFoundAlways ==
  [][\A u \in Users, id \in TaskIds \ DOMAIN tasks, b \in UpdateBodies :
       UpdateTask(u, id, b) => (resp'.code = 404 /\ tasks' = tasks)]_vars

\* C24 (amended): a status update or a delete of a well-formed identifier that
\* names no stored task, and a full update of one whose body passes the casts
\* and validators, is answered 404 and leaves the store as it is; a full
\* update of such an identifier with any body leaves the store as it is; a
\* delete that succeeds removes the named task and no other.
C24_NotFound ==
  [][/\ \A u \in Users, id \in TaskIds \ DOMAIN tasks :
          /\ \A st \in StatusInputs :
               UpdateTaskStatus(u, id, st) => (resp'.code = 404 /\ tasks' = tasks)
          /\ \A b \in UpdateBodies :
               UpdateTask(u, id, b)
                 => /\ tasks' = tasks
                    /\ ValidPatch(b) => resp'.code = 404
          /\ DeleteTask(u, id) => (resp'.code = 404 /\ tasks' = tasks)
     /\ \A u \in Users, id \in DOMAIN tasks :
          DeleteTask(u, id)
            => /\ resp'.code = 204
               /\ DOMAIN tasks' = DOMAIN tasks \ {id}
               /\ \A other \in DOMAIN tasks' : tasks'[other] = tasks[other]]_vars

\* a full update of an identifier of no task has been answered 404 while
\* another task is stored
C24_Witness ==
  /\ resp.op = "updateTask" /\ resp.code = 404
  /\ DOMAIN tasks = {2}

\* C25: the client operations return and modify only clients whose owner is
\* the requester; a get, update or delete that names another user's client is
\* answered 404 and leaves it as it is; and a client stays modifiable only by
\* the user who created it: its owner never changes.
C25_ClientIsolation ==
  [][/\ \A u \in Users, id \in DOMAIN clients :
          (/\ clients[id].createdBy # u
           /\ \/ GetClient(u, id)
              \/ \E b \in ClientPatches : UpdateClient(u, id, b)
              \/ DeleteClient(u, id))
            => (resp'.code = 404 /\ clients' = clients)
     /\ (resp'.op \in {"getAllClients", "searchClients"} /\ resp'.code = 200)
          => \A id \in resp'.clients : clients'[id].createdBy = resp'.user
     /\ \A id \in DOMAIN clients \cap DOMAIN clients' :
          clients'[id].createdBy = clients[id].createdBy]_vars

\* C26: a task created by a request that gives neither status nor priority is
\* stored with status todo and priority medium: the document built from such
\* a body has the two defaults, and the document is stored with the status
\* and priority it was built with.
C26_CreationDefaults ==
  [][\A p \in Procs :
       /\ \A u \in Users, b \in CreateBodies :
            (/\ b.status = Absent /\ b.priority = Absent
             /\ CreateBegin(p, u, b) /\ reqs'[p].pc = "gen")
              => (reqs'[p].doc.status = "todo" /\ reqs'[p].doc.priority = "medium")
       /\ (reqs[p].pc = "gen" /\ CreateGenerate(p))
            => /\ reqs'[p].doc.status = reqs[p].doc.status
               /\ reqs'[p].doc.priority = reqs[p].doc.priority
       /\ (reqs[p].pc = "com" /\ CreateCommit(p))
            => /\ tasks'[nextId].status = reqs[p].doc.status
               /\ tasks'[nextId].priority = reqs[p].doc.priority]_vars

\* C27: whatever further query parameters a list request for user U carries,
\* the tasks it returns are among those that the request without them
\* selects: every returned task has U as creator or assignee.
C27_FiltersNarrow ==
  (resp.op = "getAllTasks" /\ resp.code = 200)
    => Range(resp.tasks) \subseteq Scope(resp.query.userId)

\* C28: every task that a list request returns to the authenticated user U is
\* one that U may view (U created it, is assigned to it, or is an
\* administrator), whatever userId the request carries.
C28_ListRespectsCaller ==
  (resp.op = "getAllTasks" /\ resp.code = 200)
    => \A i \in DOMAIN resp.tasks : MayView(tasks[resp.tasks[i]], resp.user)

C30_SessionConsistent ==
  auth.isAuthenticated => auth.token # NoToken
====
